---------------------------- MODULE Spec2Model ----------------------------
(***************************************************************************)
(* Wallet-Persona backend: the /analyze request handler                    *)
(* (backend/api/router.py), the rule-based classifier                      *)
(* (backend/models/classifier.py) and the bio enhancement                  *)
(* (backend/models/persona_generator.py).                                  *)
(*                                                                         *)
(* Python numbers are modelled as exact rationals [n |-> _, d |-> _] in    *)
(* lowest terms with d > 0.  A value that is not a number (a non-numeric   *)
(* string, None) is the record [bad |-> _].  A mapping is a function whose *)
(* DOMAIN is the set of keys that are present, so that dict.get(k, dflt)   *)
(* is Get(m, k, dflt).                                                     *)
(***************************************************************************)
EXTENDS Integers, Sequences, FiniteSets, TLC

(***************************************************************************)
(* Exact arithmetic                                                        *)
(***************************************************************************)
Abs(x) == IF x < 0 THEN -x ELSE x

RECURSIVE GCD(_, _)
GCD(a, b) == IF b = 0 THEN a ELSE GCD(b, a % b)

\* the rational n/d (d # 0) in lowest terms with a positive denominator
Rat(n, d) ==
    LET g == GCD(Abs(n), Abs(d))
        s == IF d < 0 THEN -1 ELSE 1
    IN  [n |-> (s * n) \div g, d |-> (s * d) \div g]

RInt(k) == [n |-> k, d |-> 1]
RAdd(a, b) == Rat(a.n * b.d + b.n * a.d, a.d * b.d)
RSub(a, b) == Rat(a.n * b.d - b.n * a.d, a.d * b.d)
RMul(a, b) == Rat(a.n * b.n, a.d * b.d)
RDiv(a, b) == Rat(a.n * b.d, a.d * b.n)
RLt(a, b) == a.n * b.d < b.n * a.d
RLe(a, b) == a.n * b.d <= b.n * a.d
RMin(a, b) == IF RLt(b, a) THEN b ELSE a
RMax(a, b) == IF RLt(a, b) THEN b ELSE a

\* Python values: a number, or something that is not a number
IsNum(v) == "n" \in DOMAIN v
Bad(s) == [bad |-> s]
NoneValue == [pytype |-> "NoneType"]
IsDict(w) == "pytype" \notin DOMAIN w
EmptyDict == [k \in {} |-> 0]
Get(m, k, dflt) == IF k \in DOMAIN m THEN m[k] ELSE dflt

\* float(v): a number converts, anything else raises ValueError/TypeError
py_float_ok(v) == IsNum(v)
\* int(v): a number is truncated towards zero, anything else raises
py_int_ok(v) == IsNum(v)
py_int(v) == IF v.n >= 0 THEN v.n \div v.d ELSE -((-v.n) \div v.d)

\* round(x, 2) for x >= 0, as an integer number of hundredths
\* (nearest, ties to even)
Round2(x) ==
    LET num == x.n * 100
        q   == num \div x.d
        r2  == 2 * (num % x.d)
    IN  IF r2 > x.d \/ (r2 = x.d /\ q % 2 = 1) THEN q + 1 ELSE q

RECURSIVE SeqSum(_)
SeqSum(s) == IF s = <<>> THEN RInt(0) ELSE RAdd(Head(s), SeqSum(Tail(s)))

(***************************************************************************)
(* backend/models/classifier.py                                            *)
(***************************************************************************)
WALLET_TYPES ==
    <<"Investor", "NFT Collector", "DAO Member", "Degen Trader", "Dormant/Inactive">>

\* transaction values are carried in units of 10^16 wei, so that the
\* division by 1e18 of the source is a division by EtherScale
EtherScale == 100
SecondsPerDay == 86400

\* mutant: the except block leaves the two transaction features unassigned
DefaultFeatures_partial ==
    [transaction_count |-> RInt(0), token_count |-> RInt(0), nft_count |-> RInt(0),
     activity_recency |-> RInt(0), token_diversity |-> RInt(0), nft_focus |-> RInt(0),
     dao_engagement |-> RInt(0), defi_engagement |-> RInt(0)]

\* the values assigned by the outer except of _extract_features
DefaultFeatures ==
    [transaction_count |-> RInt(0), token_count |-> RInt(0), nft_count |-> RInt(0),
     activity_recency |-> RInt(0), token_diversity |-> RInt(0), nft_focus |-> RInt(0),
     dao_engagement |-> RInt(0), defi_engagement |-> RInt(0),
     avg_tx_value |-> RInt(0), tx_frequency |-> RInt(0)]

\* a / max(b, 1) inside try/except (ZeroDivisionError, TypeError): 0.0 on error
GuardedRatio(a, b) ==
    IF IsNum(a) /\ IsNum(b) THEN RDiv(a, RMax(b, RInt(1))) ELSE RInt(0)

\* "transactions" is a sequence whose entries are all mappings
TxsWellShaped(txs) == \A i \in 1..Len(txs) : IsDict(txs[i])

avg_tx_value_of(txs) ==
    IF \A i \in 1..Len(txs) : py_float_ok(Get(txs[i], "value", RInt(0)))
    THEN LET tx_values == [i \in 1..Len(txs) |->
                              RDiv(Get(txs[i], "value", RInt(0)), RInt(EtherScale))]
         IN  RDiv(SeqSum(tx_values), RInt(IF Len(txs) > 1 THEN Len(txs) ELSE 1))
    ELSE RInt(0)

tx_frequency_of(txs) ==
    IF Len(txs) >= 2
    THEN LET a == Get(txs[Len(txs)], "timeStamp", RInt(0))
             b == Get(txs[1], "timeStamp", RInt(0))
         IN  IF py_int_ok(a) /\ py_int_ok(b)
             THEN LET first_tx == py_int(a)
                      last_tx  == py_int(b)
                      time_span_days ==
                          RMax(Rat(last_tx - first_tx, SecondsPerDay), RInt(1))
                  IN  RDiv(RInt(Len(txs)), time_span_days)
             ELSE RInt(0)
    ELSE RInt(0)

extract_features(wallet_data) ==
    IF ~IsDict(wallet_data) THEN DefaultFeatures
    ELSE
    LET tx_count      == Get(wallet_data, "transaction_count", RInt(0))
        token_count   == Get(wallet_data, "token_count", RInt(0))
        nft_count     == Get(wallet_data, "nft_count", RInt(0))
        days_since_tx == Get(wallet_data, "days_since_last_transaction", RInt(365))
        defi_count    == Get(wallet_data, "defi_interaction_count", RInt(0))
        dao_count     == Get(wallet_data, "dao_vote_count", RInt(0))
        transactions  == Get(wallet_data, "transactions", <<>>)
    IN  IF ~TxsWellShaped(transactions) THEN DefaultFeatures
        ELSE
        [transaction_count |-> tx_count,
         token_count       |-> token_count,
         nft_count         |-> nft_count,
         activity_recency  |->
             IF IsNum(days_since_tx) /\ RAdd(RInt(1), days_since_tx).n # 0
             THEN RDiv(RInt(1), RAdd(RInt(1), days_since_tx))
             ELSE RInt(0),
         token_diversity   |-> GuardedRatio(token_count, tx_count),
         nft_focus         |->
             IF IsNum(nft_count) /\ IsNum(token_count)
             THEN GuardedRatio(nft_count, RAdd(token_count, nft_count))
             ELSE RInt(0),
         dao_engagement    |-> GuardedRatio(dao_count, tx_count),
         defi_engagement   |-> GuardedRatio(defi_count, tx_count),
         avg_tx_value      |-> avg_tx_value_of(transactions),
         tx_frequency      |-> tx_frequency_of(transactions)]

\* the comparisons of _rule_based_classification raise TypeError on a
\* feature that is not a number; "or"/"and" short-circuit
rule_based_raises(features) ==
    \/ ~IsNum(features.transaction_count)
    \/ /\ ~RLt(features.transaction_count, RInt(5))
       /\ ~RLt(features.activity_recency, Rat(1, 100))
       /\ ~IsNum(features.nft_count)

\* mutant: the DAO rule is tried before the inactivity rule
rule_based_classification_dao_first(features) ==
    IF RLt(Rat(1, 10), features.dao_engagement)
    THEN "DAO Member"
    ELSE IF \/ RLt(features.transaction_count, RInt(5))
            \/ RLt(features.activity_recency, Rat(1, 100))
    THEN "Dormant/Inactive"
    ELSE IF /\ RLt(RInt(10), features.nft_count)
            /\ RLt(Rat(1, 2), features.nft_focus)
    THEN "NFT Collector"
    ELSE IF /\ RLt(RInt(5), features.tx_frequency)
            /\ RLt(RInt(1), features.avg_tx_value)
    THEN "Degen Trader"
    ELSE "Investor"

rule_based_classification(features) ==
    IF \/ RLt(features.transaction_count, RInt(5))
       \/ RLt(features.activity_recency, Rat(1, 100))
    THEN "Dormant/Inactive"
    ELSE IF /\ RLt(RInt(10), features.nft_count)
            /\ RLt(Rat(1, 2), features.nft_focus)
    THEN "NFT Collector"
    ELSE IF RLt(Rat(1, 10), features.dao_engagement)
    THEN "DAO Member"
    ELSE IF /\ RLt(RInt(5), features.tx_frequency)
            /\ RLt(RInt(1), features.avg_tx_value)
    THEN "Degen Trader"
    ELSE "Investor"

\* mutant: the diversity factor is token_diversity * 20
risk_raw_diversity(features) ==
    RAdd(RAdd(RMul(features.tx_frequency, RInt(5)),
              RMin(RMul(features.avg_tx_value, RInt(10)), RInt(50))),
         RAdd(RMul(features.token_diversity, RInt(20)),
              RMul(features.activity_recency, RInt(20))))

risk_raw(features) ==
    RAdd(RAdd(RMul(features.tx_frequency, RInt(5)),
              RMin(RMul(features.avg_tx_value, RInt(10)), RInt(50))),
         RAdd(RMul(RSub(RInt(1), features.token_diversity), RInt(20)),
              RMul(features.activity_recency, RInt(20))))

health_raw(features) ==
    RAdd(RAdd(RMin(RDiv(features.transaction_count, RInt(10)), RInt(30)),
              RMul(features.token_diversity, RInt(20))),
         RAdd(RMul(features.dao_engagement, RInt(30)),
              RMul(RSub(RInt(1), features.activity_recency), RInt(20))))

\* mutant: the sums are returned without clamping
calculate_wallet_scores_unclamped(features) ==
    [risk_score |-> risk_raw(features), health_score |-> health_raw(features)]

calculate_wallet_scores(features) ==
    [risk_score   |-> RMin(RMax(risk_raw(features), RInt(0)), RInt(100)),
     health_score |-> RMin(RMax(health_raw(features), RInt(0)), RInt(100))]


\* confidence_scores before normalisation, in tenths (0.2 is 2)
\* mutant: a high nft_focus only lowers Investor
AdjustNft_investor_only(features, c) ==
    IF RLt(Rat(1, 2), features.nft_focus)
    THEN [c EXCEPT !["Investor"] = @ - 1]
    ELSE c

AdjustNft(features, c) ==
    IF RLt(Rat(1, 2), features.nft_focus)
    THEN [c EXCEPT !["NFT Collector"] = @ + 3, !["Investor"] = @ - 1]
    ELSE c

\* mutant: the DAO adjustment takes 0.2 from Dormant/Inactive
AdjustDao_heavy(features, c) ==
    IF RLt(Rat(1, 10), features.dao_engagement)
    THEN [c EXCEPT !["DAO Member"] = @ + 3, !["Dormant/Inactive"] = @ - 2]
    ELSE c

AdjustDao(features, c) ==
    IF RLt(Rat(1, 10), features.dao_engagement)
    THEN [c EXCEPT !["DAO Member"] = @ + 3, !["Dormant/Inactive"] = @ - 1]
    ELSE c

AdjustFrequency(features, c) ==
    IF RLt(RInt(5), features.tx_frequency)
    THEN [c EXCEPT !["Degen Trader"] = @ + 3, !["Dormant/Inactive"] = @ - 1]
    ELSE c

\* mutant: inactivity adds 0.2 to Dormant/Inactive
AdjustRecency_weak(features, c) ==
    IF RLt(features.activity_recency, Rat(1, 100))
    THEN [w \in DOMAIN c |-> IF w = "Dormant/Inactive" THEN c[w] + 2 ELSE c[w] - 1]
    ELSE c

AdjustRecency(features, c) ==
    IF RLt(features.activity_recency, Rat(1, 100))
    THEN [w \in DOMAIN c |-> IF w = "Dormant/Inactive" THEN c[w] + 5 ELSE c[w] - 1]
    ELSE c

Labels == {WALLET_TYPES[i] : i \in 1..Len(WALLET_TYPES)}

confidence_adjusted(features) ==
    AdjustRecency(features,
        AdjustFrequency(features,
            AdjustDao(features,
                AdjustNft(features, [w \in Labels |-> 2]))))

RECURSIVE SumOver(_, _)
SumOver(f, S) ==
    IF S = {} THEN 0
    ELSE LET w == CHOOSE x \in S : TRUE IN f[w] + SumOver(f, S \ {w})

\* mutant: the shares are taken of the prior total 1.0, not of the adjusted total
normalize_prior_total(c) ==
    [w \in DOMAIN c |-> Round2(Rat(c[w] * 100, 10))]

\* round(confidence_scores[wtype] / total * 100, 2), in hundredths
normalize(c) ==
    LET total == SumOver(c, DOMAIN c)
    IN  [w \in DOMAIN c |-> Round2(Rat(c[w] * 100, total))]

\* classify_wallet raises when a comparison or the division by 10 meets a
\* feature that is not a number, or when total is 0
classify_wallet_raises(wallet_data) ==
    LET features == extract_features(wallet_data)
    IN  \/ rule_based_raises(features)
        \/ SumOver(confidence_adjusted(features), Labels) = 0

classify_wallet(wallet_data) ==
    LET features          == extract_features(wallet_data)
        wallet_type       == rule_based_classification(features)
        scores            == calculate_wallet_scores(features)
        confidence_scores == normalize(confidence_adjusted(features))
    IN  [wallet_type          |-> wallet_type,
         confidence           |-> confidence_scores[wallet_type],
         all_types_confidence |-> confidence_scores,
         risk_score           |-> scores.risk_score,
         health_score         |-> scores.health_score,
         features             |-> features]

get_recommendations(classification) ==
    LET wallet_type == classification.wallet_type
    IN  IF wallet_type = "Investor" THEN
            [dapps |-> <<"DeBank", "Zapper.fi", "Zerion">>, nfts |-> <<>>,
             defi  |-> <<"Aave", "Compound", "Yearn Finance">>,
             daos  |-> <<"MakerDAO", "Aave Governance">>]
        ELSE IF wallet_type = "NFT Collector" THEN
            [dapps |-> <<"OpenSea", "Blur", "Rarible">>,
             nfts  |-> <<"Art Blocks", "PROOF Collective", "Azuki">>,
             defi  |-> <<"NFTfi", "Arcade">>, daos |-> <<>>]
        ELSE IF wallet_type = "DAO Member" THEN
            [dapps |-> <<"Snapshot", "Tally", "Boardroom">>, nfts |-> <<>>,
             defi  |-> <<"Index Coop", "Balancer">>,
             daos  |-> <<"Gitcoin", "Optimism Collective", "ENS DAO">>]
        ELSE IF wallet_type = "Degen Trader" THEN
            [dapps |-> <<"dYdX", "GMX", "PancakeSwap">>,
             nfts  |-> <<"Memeland", "Pudgy Penguins">>,
             defi  |-> <<"Curve", "Synthetix", "Perpetual Protocol">>, daos |-> <<>>]
        ELSE
            [dapps |-> <<"Revoke.cash", "Etherscan", "Zapper.fi">>, nfts |-> <<>>,
             defi  |-> <<"Lido", "Rocket Pool", "Yearn Finance">>, daos |-> <<>>]

(***************************************************************************)
(* backend/models/persona_generator.py                                     *)
(*                                                                         *)
(* A text is a sequence of segments: a generated word, a template, or one  *)
(* of the sentences appended by enhance_generated_bio.  A Python dict      *)
(* whose order matters is [items |-> <<[name |-> _, count |-> _], ...>>].  *)
(***************************************************************************)
PyDict(items) == [items |-> items]
Word == [kind |-> "word"]
Words(k) == [i \in 1..k |-> Word]
Template(wallet_type, index) ==
    [kind |-> "template", wallet_type |-> wallet_type, index |-> index]
Take(s, k) == SubSeq(s, 1, IF Len(s) < k THEN Len(s) ELSE k)

\* the comparisons "> 0" and the .keys() call of _create_prompt raise on a
\* count that is not a number or a defi_protocols that is not a dict
create_prompt_raises(wallet_data, classification) ==
    LET f0 == Get(classification, "features", EmptyDict)
        features == IF DOMAIN f0 = {}
                    THEN [transaction_count |-> Get(wallet_data, "transaction_count", RInt(0)),
                          token_count       |-> Get(wallet_data, "token_count", RInt(0)),
                          nft_count         |-> Get(wallet_data, "nft_count", RInt(0))]
                    ELSE f0
    IN  \/ ~IsNum(Get(features, "token_count", RInt(0)))
        \/ ~IsNum(Get(features, "nft_count", RInt(0)))
        \/ ~IsNum(Get(wallet_data, "dao_vote_count", RInt(0)))
        \/ ~IsDict(Get(wallet_data, "defi_protocols", PyDict(<<>>)))

persona_templates(wallet_type) ==
    IF wallet_type \in Labels
    THEN <<Template(wallet_type, 0), Template(wallet_type, 1)>>
    ELSE <<Template("Crypto enthusiast", 0)>>

\* mutant: the limit is off by one, a text of exactly 10 words is replaced
WordLimit_eleven == 10 + 1

WordLimit == 10

\* the code after the try block raises on a defi_protocols or
\* dao_participation that is not a dict
enhance_generated_bio_raises(wallet_data) ==
    \/ ~IsDict(Get(wallet_data, "defi_protocols", PyDict(<<>>)))
    \/ ~IsDict(Get(wallet_data, "dao_participation", PyDict(<<>>)))

enhance_generated_bio(bio, wallet_data, classification) ==
    LET short == Len(bio) < WordLimit
        base  == IF short
                 THEN <<persona_templates(Get(classification, "wallet_type", "Unknown"))[1]>>
                 ELSE bio
        token_balances == Get(wallet_data, "token_balances", <<>>)
        top == Take(token_balances, 3)
        top_tokens == [i \in 1..Len(SelectSeq(top, LAMBDA t : "tokenSymbol" \in DOMAIN t)) |->
                          SelectSeq(top, LAMBDA t : "tokenSymbol" \in DOMAIN t)[i].tokenSymbol]
        withTokens == IF top_tokens # <<>>
                      THEN Append(base, [kind |-> "holding", names |-> top_tokens])
                      ELSE base
        defi == Get(wallet_data, "defi_protocols", PyDict(<<>>)).items
        withDefi == IF defi # <<>>
                    THEN Append(withTokens,
                                [kind |-> "active", names |->
                                    [i \in 1..Len(Take(defi, 2)) |-> defi[i].name]])
                    ELSE withTokens
        daos == Get(wallet_data, "dao_participation", PyDict(<<>>)).items
        withDaos == IF daos # <<>>
                    THEN Append(withDefi,
                                [kind |-> "governance", names |->
                                    [i \in 1..Len(Take(daos, 2)) |-> daos[i].name]])
                    ELSE withDefi
    IN  [text |-> withDaos, is_ai_generated |-> ~short]

(***************************************************************************)
(* backend/api/router.py: prepare_visualization_data                       *)
(***************************************************************************)
DefaultDecimals == 18

\* float(token_value) / (10 ** decimals), kept as mantissa n/d and decimal
\* exponent e: the value is (n/d) * 10^(-e)
Decoded(raw, decimals) == [n |-> raw.n, d |-> raw.d, e |-> decimals]

DefaultPortfolio ==
    <<[symbol |-> "ETH", value |-> Rat(1, 10), name |-> "Ethereum", type |-> "ERC20"]>>
DefaultDefi == <<[protocol |-> "Unknown", interactions |-> 0]>>

EmptyBundle ==
    [timeline |-> <<>>, portfolio |-> <<>>, defi_interactions |-> <<>>,
     dao_participation |-> <<>>]

timeline_entry(tx) ==
    LET ts == Get(tx, "timeStamp", RInt(0))
        v  == Get(tx, "value", RInt(0))
    IN  [timestamp |-> IF py_int_ok(ts) THEN py_int(ts) ELSE 0,
         type      |-> "transaction",
         hash      |-> Get(tx, "hash", ""),
         value     |-> IF py_float_ok(v) THEN RDiv(v, RInt(EtherScale)) ELSE RInt(0),
         to        |-> Get(tx, "to", ""),
         from      |-> Get(tx, "from", "")]

\* mutant: a transaction with a malformed timeStamp or value is dropped
timeline_of_strict(transactions) ==
    LET kept == SelectSeq(transactions,
                    LAMBDA tx : /\ IsDict(tx)
                                /\ py_int_ok(Get(tx, "timeStamp", RInt(0)))
                                /\ py_float_ok(Get(tx, "value", RInt(0))))
    IN  [i \in 1..Len(kept) |-> timeline_entry(kept[i])]

\* a transaction that is not a mapping raises inside the loop and is skipped
timeline_of(transactions) ==
    LET kept == SelectSeq(transactions, IsDict)
    IN  [i \in 1..Len(kept) |-> timeline_entry(kept[i])]

token_value_of(token) ==
    LET token_value == Get(token, "tokenValue", Get(token, "tokenBalance", RInt(0)))
        dec         == Get(token, "tokenDecimal", RInt(DefaultDecimals))
        decimals    == IF py_int_ok(dec) THEN py_int(dec) ELSE DefaultDecimals
    IN  IF py_float_ok(token_value) THEN Decoded(token_value, decimals)
        ELSE Decoded(RInt(0), 0)

portfolio_entry(token) ==
    [symbol |-> Get(token, "tokenSymbol", "Unknown"),
     value  |-> token_value_of(token),
     name   |-> Get(token, "tokenName", "Unknown Token"),
     type   |-> "ERC20"]

\* mutant: zero-valued tokens are kept
erc20_entries_nonneg(token_balances) ==
    LET kept == SelectSeq(token_balances,
                          LAMBDA t : IsDict(t) /\ token_value_of(t).n >= 0)
    IN  [i \in 1..Len(kept) |-> portfolio_entry(kept[i])]

erc20_entries(token_balances) ==
    LET kept == SelectSeq(token_balances,
                          LAMBDA t : IsDict(t) /\ token_value_of(t).n > 0)
    IN  [i \in 1..Len(kept) |-> portfolio_entry(kept[i])]

collection_of(nft) == Get(Get(nft, "contract", EmptyDict), "name", "Unknown Collection")

RECURSIVE count_collections(_, _)
count_collections(nfts, acc) ==
    IF nfts = <<>> THEN acc
    ELSE LET c == collection_of(Head(nfts))
             hit == {i \in 1..Len(acc) : acc[i].name = c}
         IN  count_collections(Tail(nfts),
                 IF hit = {} THEN Append(acc, [name |-> c, count |-> 1])
                 ELSE [i \in 1..Len(acc) |->
                          IF i \in hit THEN [acc[i] EXCEPT !.count = @ + 1] ELSE acc[i]])

\* mutant: the limit is off by one
NftPortfolioLimit_four == 3 + 1

NftPortfolioLimit == 3

nft_entry(nft_count) ==
    [symbol |-> "NFTs", value |-> Rat(1, 10), name |-> "NFT Collections",
     items |-> nft_count, type |-> "NFT"]

prepare_visualization_data(wallet_data) ==
    IF ~IsDict(wallet_data) \/ DOMAIN wallet_data = {} THEN EmptyBundle
    ELSE
    LET transactions   == Get(wallet_data, "transactions", <<>>)
        token_balances == Get(wallet_data, "token_balances", <<>>)
        nfts           == Get(wallet_data, "nfts", <<>>)
        nft_count      == Len(nfts)
        erc20          == erc20_entries(token_balances)
        portfolio_data == IF Len(erc20) < NftPortfolioLimit /\ nft_count > 0
                          THEN Append(erc20, nft_entry(nft_count))
                          ELSE erc20
        defi_protocols == Get(wallet_data, "defi_protocols", PyDict(<<>>))
        defi_data      == IF IsDict(defi_protocols)
                          THEN [i \in 1..Len(defi_protocols.items) |->
                                   [protocol     |-> defi_protocols.items[i].name,
                                    interactions |-> defi_protocols.items[i].count]]
                          ELSE <<>>
        dao_participation == Get(wallet_data, "dao_participation", PyDict(<<>>))
        dao_data       == IF IsDict(dao_participation)
                          THEN [i \in 1..Len(dao_participation.items) |->
                                   [dao   |-> dao_participation.items[i].name,
                                    votes |-> dao_participation.items[i].count]]
                          ELSE <<>>
        result == [timeline          |-> timeline_of(transactions),
                   portfolio         |-> IF portfolio_data = <<>> THEN DefaultPortfolio
                                         ELSE portfolio_data,
                   defi_interactions |-> IF defi_data = <<>> THEN DefaultDefi
                                         ELSE defi_data,
                   dao_participation |-> dao_data]
    IN  IF nft_count > 0
        THEN result @@ ("nft_collections" :> count_collections(nfts, <<>>))
        ELSE result

(***************************************************************************)
(* Inputs                                                                  *)
(***************************************************************************)
ADDRESS_LENGTH == 42
MaxAddrLen == 43
MaxTxCount == 400
MaxTokens == 6
MaxDays == 1000
MaxWords == 11

Fill(n) == [i \in 1..n |-> "a"]
Prefixes == {<<"0", "x">>, <<"0", "X">>, <<"x", "0">>}
Addresses ==
    {<<>>, <<"0">>} \cup {p \o Fill(n - 2) : p \in Prefixes, n \in 40..MaxAddrLen}

Tx(h, v, ts) == [hash |-> h, value |-> RInt(v), timeStamp |-> RInt(ts)]
\* k transactions, most recent first, spaced "step" seconds apart
TxList(k, v, step) == [i \in 1..k |-> Tx("0xh", v, (k - i) * step)]
TxLists ==
    {<<>>,
     TxList(1, 5 * EtherScale, 0),
     TxList(2, EtherScale \div 2, 5 * SecondsPerDay),
     TxList(6, 3 * EtherScale, 3600),
     TxList(10, 20 * EtherScale, 60)}

TxCounts == {RInt(0), RInt(4), RInt(5), RInt(MaxTxCount), Bad("abc")}
TokenCounts == {RInt(0), RInt(3), RInt(MaxTokens), Bad("abc")}
NftCounts == {RInt(0), RInt(10), RInt(20), Bad("abc")}
DaysValues == {RInt(0), RInt(99), RInt(100), RInt(365), RInt(MaxDays)}
DaoCounts == {RInt(0), RInt(1), RInt(40)}

Token(sym, bal, dec) ==
    [tokenSymbol |-> sym, tokenName |-> sym, tokenDecimal |-> RInt(dec),
     tokenBalance |-> RInt(bal)]
Nft(c) == [contract |-> [name |-> c]]

ActivityRecord(tx, tok, nft, days, dao, txs, tokens, nfts, defi, daos) ==
    [address |-> "wallet", eth_balance |-> Rat(3, 2),
     transaction_count |-> tx, token_count |-> tok, nft_count |-> nft,
     days_since_last_transaction |-> days,
     defi_interaction_count |-> RInt(SumOver([i \in 1..Len(defi) |-> defi[i].count],
                                             1..Len(defi))),
     defi_protocols |-> PyDict(defi),
     dao_vote_count |-> dao, dao_participation |-> PyDict(daos),
     token_balances |-> tokens, nfts |-> nfts, transactions |-> txs,
     recent_transactions |-> <<>>]

ClassifierRecords ==
    {ActivityRecord(tx, tok, nft, days, dao, txs, <<>>, <<>>, <<>>, <<>>) :
        tx \in TxCounts, tok \in TokenCounts, nft \in NftCounts,
        days \in DaysValues, dao \in DaoCounts, txs \in TxLists}

\* a token whose balance is not a number and whose decimals are missing
MalformedToken == [tokenSymbol |-> "BAD", tokenName |-> "BAD", tokenBalance |-> Bad("n/a")]
\* a token without decimals, reported under "tokenValue"
PlainToken == [tokenSymbol |-> "WETH", tokenName |-> "WETH", tokenValue |-> RInt(3)]

TokenLists ==
    {<<Token("DAI", 500, 2)>>,
     <<Token("ZRX", 0, 2), MalformedToken>>,
     <<MalformedToken, PlainToken, Token("ZRX", 0, 2), Token("DAI", 500, 2)>>,
     <<Token("DAI", 500, 2), Token("ZRX", 0, 2), Token("UNI", 7, 0), Token("LINK", 1, 1)>>}
NftLists == {<<>>, <<Nft("Azuki"), Nft("Punks"), Nft("Azuki")>>}
DefiLists == {<<>>, <<[name |-> "Uniswap V2", count |-> 2], [name |-> "1inch", count |-> 1]>>}

VisualRecords ==
    {ActivityRecord(RInt(5), RInt(Len(tokens)), RInt(Len(nfts)), RInt(0), RInt(0),
                    TxList(2, EtherScale \div 2, 5 * SecondsPerDay),
                    tokens, nfts, defi, <<>>) :
        tokens \in TokenLists, nfts \in NftLists, defi \in DefiLists}

\* what get_wallet_data can return
Records == ClassifierRecords \cup VisualRecords \cup {EmptyDict}

BioWordCounts == {0, WordLimit - 1, WordLimit, MaxWords}

(***************************************************************************)
(* backend/api/router.py: analyze_wallet                                   *)
(***************************************************************************)
VARIABLES pc, address, wallet_data, classification, recommendations,
          persona_bio, bio_data, visualization_data, response, invoked,
          fallback_taken, features

vars == <<pc, address, wallet_data, classification, recommendations,
          persona_bio, bio_data, visualization_data, response, invoked,
          fallback_taken, features>>

Unset == NoneValue

startswith(str, prefix) ==
    Len(str) >= Len(prefix) /\ SubSeq(str, 1, Len(prefix)) = prefix

\* mutant: "and" in place of "or"
address_invalid_both(addr) ==
    ~startswith(addr, <<"0", "x">>) /\ Len(addr) # ADDRESS_LENGTH

address_invalid(addr) ==
    ~startswith(addr, <<"0", "x">>) \/ Len(addr) # ADDRESS_LENGTH

HTTPException(code, detail) == [kind |-> "error", status_code |-> code, detail |-> detail]

\* the handler's outer "except Exception": whatever was raised inside the
\* try block, an HTTPException included, is replaced by a 500
outer_except(e) == HTTPException(500, "Error analyzing wallet")

default_wallet_data(addr) ==
    [address |-> addr,
     transaction_count |-> RInt(0), token_count |-> RInt(0), nft_count |-> RInt(0),
     days_since_last_transaction |-> RInt(365),
     defi_interaction_count |-> RInt(0), dao_vote_count |-> RInt(0)]

\* mutant: the two default scores are exchanged
default_classification_swapped ==
    [wallet_type |-> "Unknown", confidence |-> 0,
     risk_score |-> RInt(50), health_score |-> RInt(25)]

\* confidence is kept in hundredths, like all_types_confidence
default_classification ==
    [wallet_type |-> "Unknown", confidence |-> 0,
     risk_score |-> RInt(25), health_score |-> RInt(50)]

default_recommendations ==
    [dapps |-> <<"Etherscan", "Revoke.cash", "Zapper.fi">>, nfts |-> <<>>,
     defi  |-> <<"Uniswap", "Aave">>, daos |-> <<>>]

WalletResponse(addr, wd, cls, bio, recs, viz) ==
    [kind |-> "persona", status_code |-> 200,
     address |-> addr,
     wallet_type |-> Get(cls, "wallet_type", "Unknown"),
     confidence |-> Get(cls, "confidence", 0),
     persona_bio |-> Get(bio, "text", <<>>),
     is_ai_generated |-> Get(bio, "is_ai_generated", FALSE),
     risk_score |-> Get(cls, "risk_score", RInt(25)),
     health_score |-> Get(cls, "health_score", RInt(50)),
     eth_balance |-> Get(wd, "eth_balance", RInt(0)),
     recent_transactions |-> Get(wd, "recent_transactions", <<>>),
     recommendations |-> recs,
     visualization_data |-> viz]

Init ==
    /\ pc = "validate"
    /\ address \in Addresses
    /\ wallet_data = Unset
    /\ classification = Unset
    /\ recommendations = Unset
    /\ persona_bio = <<>>
    /\ bio_data = Unset
    /\ visualization_data = Unset
    /\ response = Unset
    /\ invoked = {}
    /\ fallback_taken = FALSE
    /\ features = Unset

Fail(e) ==
    /\ response' = outer_except(e)
    /\ pc' = "done"

\* the inner except: default record, classification and recommendations
Fallback ==
    /\ wallet_data' = default_wallet_data(address)
    /\ classification' = default_classification
    /\ recommendations' = default_recommendations
    /\ fallback_taken' = TRUE
    /\ pc' = "generate"

\* router.py 56-58
Validate ==
    /\ pc = "validate"
    /\ IF address_invalid(address)
       THEN Fail(HTTPException(400, "Invalid Ethereum address format"))
       ELSE pc' = "fetch" /\ UNCHANGED response
    /\ UNCHANGED <<features, address, wallet_data, classification, recommendations,
                   persona_bio, bio_data, visualization_data, invoked, fallback_taken>>

\* router.py 62: the collaborator returns a record
FetchOk ==
    /\ pc = "fetch"
    /\ invoked' = invoked \cup {"get_wallet_data"}
    /\ \E r \in Records : wallet_data' = r
    /\ pc' = "classify"
    /\ UNCHANGED <<features, address, classification, recommendations, persona_bio, bio_data,
                   visualization_data, response, fallback_taken>>

\* router.py 62, 69-93: the collaborator raises
FetchRaises ==
    /\ pc = "fetch"
    /\ invoked' = invoked \cup {"get_wallet_data"}
    /\ Fallback
    /\ UNCHANGED <<features, address, persona_bio, bio_data, visualization_data, response>>

\* router.py 65-68, 69-93
Classify ==
    /\ pc = "classify"
    /\ IF classify_wallet_raises(wallet_data)
       THEN /\ invoked' = invoked \cup {"classify_wallet"}
            /\ Fallback
       ELSE /\ invoked' = invoked \cup {"classify_wallet", "get_recommendations"}
            /\ classification' = classify_wallet(wallet_data)
            /\ recommendations' = get_recommendations(classify_wallet(wallet_data))
            /\ pc' = "generate"
            /\ UNCHANGED <<wallet_data, fallback_taken>>
    /\ UNCHANGED <<features, address, persona_bio, bio_data, visualization_data, response>>

\* router.py 96: the model returns a text of k words
GenerateOk ==
    /\ pc = "generate"
    /\ ~create_prompt_raises(wallet_data, classification)
    /\ invoked' = invoked \cup {"generate_persona"}
    /\ \E k \in BioWordCounts : persona_bio' = Words(k)
    /\ pc' = "enhance"
    /\ UNCHANGED <<features, address, wallet_data, classification, recommendations, bio_data,
                   visualization_data, response, fallback_taken>>

\* router.py 96, 124-133: building the prompt or running the model raises
GenerateRaises ==
    /\ pc = "generate"
    /\ invoked' = invoked \cup {"generate_persona"}
    /\ Fail([kind |-> "exception", detail |-> "generate_persona"])
    /\ UNCHANGED <<features, address, wallet_data, classification, recommendations,
                   persona_bio, bio_data, visualization_data, fallback_taken>>

\* router.py 99
Enhance ==
    /\ pc = "enhance"
    /\ invoked' = invoked \cup {"enhance_generated_bio"}
    /\ IF enhance_generated_bio_raises(wallet_data)
       THEN /\ Fail([kind |-> "exception", detail |-> "enhance_generated_bio"])
            /\ UNCHANGED bio_data
       ELSE /\ bio_data' = enhance_generated_bio(persona_bio, wallet_data, classification)
            /\ pc' = "recommend"
            /\ UNCHANGED response
    /\ UNCHANGED <<features, address, wallet_data, classification, recommendations,
                   persona_bio, visualization_data, fallback_taken>>

\* router.py 102
Recommend ==
    /\ pc = "recommend"
    /\ invoked' = invoked \cup {"get_recommendations"}
    /\ recommendations' = get_recommendations(classification)
    /\ pc' = "visualize"
    /\ UNCHANGED <<features, address, wallet_data, classification, persona_bio, bio_data,
                   visualization_data, response, fallback_taken>>

\* router.py 105
Visualize ==
    /\ pc = "visualize"
    /\ invoked' = invoked \cup {"prepare_visualization_data"}
    /\ visualization_data' = prepare_visualization_data(wallet_data)
    /\ pc' = "respond"
    /\ UNCHANGED <<features, address, wallet_data, classification, recommendations,
                   persona_bio, bio_data, response, fallback_taken>>

\* router.py 108-122
Respond ==
    /\ pc = "respond"
    /\ response' = WalletResponse(address, wallet_data, classification, bio_data,
                                  recommendations, visualization_data)
    /\ pc' = "done"
    /\ UNCHANGED <<features, address, wallet_data, classification, recommendations,
                   persona_bio, bio_data, visualization_data, invoked, fallback_taken>>

Next ==
    \/ Validate
    \/ FetchOk
    \/ FetchRaises
    \/ Classify
    \/ GenerateOk
    \/ GenerateRaises
    \/ Enhance
    \/ Recommend
    \/ Visualize
    \/ Respond

Spec == Init /\ [][Next]_vars

(***************************************************************************)
(* The core functions called directly on an Activity Record, one after the *)
(* other: _extract_features, classify_wallet, prepare_visualization_data.  *)
(* The argument may be malformed or not a record at all.                   *)
(***************************************************************************)
Raised(e) == [raised |-> e]

\* values that are not a mapping
NonRecords == {NoneValue, [pytype |-> "list"]}

\* records with a transaction that is not a mapping, or whose value or
\* timeStamp is not a number or is missing
MalformedTxLists ==
    {<<Tx("0xh", EtherScale, SecondsPerDay), NoneValue>>,
     <<Tx("0xh", EtherScale, SecondsPerDay),
       [hash |-> "0xg", value |-> Bad("n/a"), timeStamp |-> RInt(0)]>>,
     <<[hash |-> "0xg", value |-> RInt(EtherScale), timeStamp |-> Bad("n/a")],
       Tx("0xh", EtherScale, 0)>>,
     <<Tx("0xh", 2 * EtherScale, 2 * SecondsPerDay), [hash |-> "0xm"],
       Tx("0xf", EtherScale, SecondsPerDay)>>}

MalformedRecords ==
    {ActivityRecord(RInt(5), RInt(3), RInt(0), days, RInt(1), txs, <<>>, <<>>, <<>>, <<>>) :
        days \in {RInt(0), Bad("n/a")}, txs \in MalformedTxLists}

\* records whose last transaction is stamped after the fetcher's clock reading
\* (days_since_last_transaction = (now - last) / 86400 is then negative)
NegativeDays == {Rat(-1, 2), RInt(-1), RInt(-2)}
NegativeDaysRecords ==
    {ActivityRecord(RInt(5), RInt(3), RInt(0), days, RInt(1),
                    TxList(2, EtherScale \div 2, 5 * SecondsPerDay),
                    <<>>, <<>>, <<>>, <<>>) : days \in NegativeDays}

PureInputs == Records \cup MalformedRecords \cup NegativeDaysRecords \cup NonRecords

PureInit ==
    /\ pc = "call_extract_features"
    /\ wallet_data \in PureInputs
    /\ address = <<>>
    /\ classification = Unset
    /\ recommendations = Unset
    /\ persona_bio = <<>>
    /\ bio_data = Unset
    /\ visualization_data = Unset
    /\ response = Unset
    /\ invoked = {}
    /\ fallback_taken = FALSE
    /\ features = Unset

\* classifier.py 28-127
CallExtractFeatures ==
    /\ pc = "call_extract_features"
    /\ features' = extract_features(wallet_data)
    /\ pc' = "call_classify_wallet"
    /\ UNCHANGED <<address, wallet_data, classification, recommendations, persona_bio,
                   bio_data, visualization_data, response, invoked, fallback_taken>>

\* classifier.py 196-254: the result, or the exception that leaves the call
CallClassifyWallet ==
    /\ pc = "call_classify_wallet"
    /\ classification' = IF classify_wallet_raises(wallet_data)
                         THEN Raised("TypeError")
                         ELSE classify_wallet(wallet_data)
    /\ pc' = "call_prepare_visualization_data"
    /\ UNCHANGED <<address, wallet_data, features, recommendations, persona_bio,
                   bio_data, visualization_data, response, invoked, fallback_taken>>

\* router.py 136-335
CallPrepareVisualization ==
    /\ pc = "call_prepare_visualization_data"
    /\ visualization_data' = prepare_visualization_data(wallet_data)
    /\ pc' = "returned"
    /\ UNCHANGED <<address, wallet_data, features, classification, recommendations,
                   persona_bio, bio_data, response, invoked, fallback_taken>>

PureNext ==
    \/ CallExtractFeatures
    \/ CallClassifyWallet
    \/ CallPrepareVisualization

PureSpec == PureInit /\ [][PureNext]_vars

(***************************************************************************)
(* Properties                                                              *)
(***************************************************************************)
\* classify_wallet has returned and its result is the current classification
Classified == ~fallback_taken /\ classification # Unset

InRange(x, lo, hi) == RLe(RInt(lo), x) /\ RLe(x, RInt(hi))

\* C1: risk_score and health_score returned by calculate_wallet_scores both
\* lie in [0,100], whatever the Feature Vector.
C1_ScoresClamped ==
    Classified =>
        /\ InRange(classification.risk_score, 0, 100)
        /\ InRange(classification.health_score, 0, 100)

\* C1 witness: token_diversity exceeds 1, the risk sum is negative and the
\* health sum exceeds 100, and both have been clamped.
C1_Witness ==
    /\ Classified
    /\ RLt(RInt(1), classification.features.token_diversity)
    /\ RLt(risk_raw(classification.features), RInt(0))
    /\ RLt(RInt(100), health_raw(classification.features))
    /\ classification.risk_score = RInt(0)
    /\ classification.health_score = RInt(100)

Rule1(f) == RLt(f.transaction_count, RInt(5)) \/ RLt(f.activity_recency, Rat(1, 100))
Rule2(f) == RLt(RInt(10), f.nft_count) /\ RLt(Rat(1, 2), f.nft_focus)
Rule3(f) == RLt(Rat(1, 10), f.dao_engagement)
Rule4(f) == RLt(RInt(5), f.tx_frequency) /\ RLt(RInt(1), f.avg_tx_value)

\* C2: the label is that of the first matching rule in the order inactivity,
\* NFT Collector, DAO Member, Degen Trader, else Investor; a vector matching
\* rule 1 is Dormant/Inactive whatever else it matches; the label is one of
\* the five persona labels.
C2_FirstRuleWins ==
    Classified =>
        LET f == classification.features
            t == classification.wallet_type
        IN  /\ t \in {"Investor", "NFT Collector", "DAO Member", "Degen Trader",
                      "Dormant/Inactive"}
            /\ Rule1(f) => t = "Dormant/Inactive"
            /\ (~Rule1(f) /\ Rule2(f)) => t = "NFT Collector"
            /\ (~Rule1(f) /\ ~Rule2(f) /\ Rule3(f)) => t = "DAO Member"
            /\ (~Rule1(f) /\ ~Rule2(f) /\ ~Rule3(f) /\ Rule4(f)) => t = "Degen Trader"
            /\ (~Rule1(f) /\ ~Rule2(f) /\ ~Rule3(f) /\ ~Rule4(f)) => t = "Investor"

\* C2 witness: a vector that matches rules 1, 2, 3 and 4 at once has been
\* labelled Dormant/Inactive.
C2_Witness ==
    /\ Classified
    /\ IsNum(classification.features.nft_count)
    /\ Rule1(classification.features)
    /\ Rule2(classification.features)
    /\ Rule3(classification.features)
    /\ Rule4(classification.features)
    /\ classification.wallet_type = "Dormant/Inactive"

ConfidenceSum == SumOver(classification.all_types_confidence, Labels)

\* C3: the five values of all_types_confidence sum to 100 within 0.1
\* (10000 within 10, in hundredths), and the total before normalisation is
\* not zero.
C3_ConfidenceSums ==
    Classified =>
        /\ SumOver(confidence_adjusted(classification.features), Labels) # 0
        /\ DOMAIN classification.all_types_confidence = Labels
        /\ ConfidenceSum >= 10000 - 10
        /\ ConfidenceSum <= 10000 + 10

\* C3 witness: all four adjustments have fired and the rounded shares have
\* been summed.
C3_Witness ==
    /\ Classified
    /\ RLt(Rat(1, 2), classification.features.nft_focus)
    /\ RLt(Rat(1, 10), classification.features.dao_engagement)
    /\ RLt(RInt(5), classification.features.tx_frequency)
    /\ RLt(classification.features.activity_recency, Rat(1, 100))
    /\ ConfidenceSum = 10000

\* C4: every entry of all_types_confidence and the reported confidence,
\* which is the entry of the rule-based wallet_type, lie in [0,100].
C4_ConfidenceInRange ==
    Classified =>
        /\ \A w \in Labels :
              /\ classification.all_types_confidence[w] >= 0
              /\ classification.all_types_confidence[w] <= 10000
        /\ classification.confidence =
              classification.all_types_confidence[classification.wallet_type]
        /\ classification.confidence >= 0
        /\ classification.confidence <= 10000

\* C4 witness: the DAO and the frequency adjustment have both taken 0.1 from
\* Dormant/Inactive, whose share is exactly 0.
C4_Witness ==
    /\ Classified
    /\ RLt(Rat(1, 10), classification.features.dao_engagement)
    /\ RLt(RInt(5), classification.features.tx_frequency)
    /\ ~RLt(classification.features.activity_recency, Rat(1, 100))
    /\ classification.all_types_confidence["Dormant/Inactive"] = 0

\* the address format of the request contract: "0x" followed by 40 characters
WellFormedAddress ==
    /\ Len(address) = 42
    /\ address[1] = "0"
    /\ address[2] = "x"

\* C5: for an address that does not start with "0x" or is not 42 long, no
\* collaborator is ever invoked; an address of "0x" plus 40 characters
\* proceeds to the fetch.
C5_RejectedBeforeCore ==
    /\ ~WellFormedAddress =>
          /\ invoked = {}
          /\ wallet_data = Unset
          /\ classification = Unset
          /\ visualization_data = Unset
    /\ (WellFormedAddress /\ pc \notin {"validate", "fetch"}) =>
          "get_wallet_data" \in invoked

\* C5 witness: a request with "0x" and 41 characters has ended without any
\* collaborator having been invoked.
C5_Witness ==
    /\ pc = "done"
    /\ Len(address) = 41
    /\ startswith(address, <<"0", "x">>)
    /\ invoked = {}

\* C6: a request with an invalid address format ends with HTTP status 400.
C6_InvalidAddressIs400 ==
    (pc = "done" /\ ~WellFormedAddress) => response.status_code = 400

\* the handler has returned a WalletResponse
PersonaResponse == pc = "done" /\ response.kind = "persona"

\* C7: after a failed fetch or classification the substituted Activity
\* Record has all five counts 0 and days_since_last_transaction 365, and the
\* response carries wallet_type "Unknown", confidence 0.0, risk_score 25.0
\* and health_score 50.0.
C7_FallbackDefaults ==
    /\ fallback_taken =>
          /\ wallet_data.transaction_count = RInt(0)
          /\ wallet_data.token_count = RInt(0)
          /\ wallet_data.nft_count = RInt(0)
          /\ wallet_data.defi_interaction_count = RInt(0)
          /\ wallet_data.dao_vote_count = RInt(0)
          /\ wallet_data.days_since_last_transaction = RInt(365)
    /\ (fallback_taken /\ PersonaResponse) =>
          /\ response.wallet_type = "Unknown"
          /\ response.confidence = 0
          /\ response.risk_score = RInt(25)
          /\ response.health_score = RInt(50)

\* C7 witness: classification has raised on a fetched record and the handler
\* has answered with the defaults.
C7_Witness ==
    /\ fallback_taken
    /\ "classify_wallet" \in invoked
    /\ PersonaResponse
    /\ response.wallet_type = "Unknown"

\* C8: after a failed fetch the recommendations of the final response are
\* dapps Etherscan, Revoke.cash, Zapper.fi and defi Uniswap, Aave, with nfts
\* and daos empty.
C8_DefaultRecommendationsKept ==
    (fallback_taken /\ PersonaResponse) =>
        /\ response.recommendations.dapps = <<"Etherscan", "Revoke.cash", "Zapper.fi">>
        /\ response.recommendations.defi = <<"Uniswap", "Aave">>
        /\ response.recommendations.nfts = <<>>
        /\ response.recommendations.daos = <<>>

\* C9: every request with a validly formatted address ends with a persona
\* response, never with an error, whichever collaborator fails.
C9_ValidRequestGetsPersona ==
    (pc = "done" /\ WellFormedAddress) => response.kind = "persona"

\* an Activity Record with no fields, or with all counts 0, no transactions
\* and days_since_last_transaction 365
IsEmptyRecord(w) ==
    /\ IsDict(w)
    /\ Get(w, "transaction_count", RInt(0)) = RInt(0)
    /\ Get(w, "token_count", RInt(0)) = RInt(0)
    /\ Get(w, "nft_count", RInt(0)) = RInt(0)
    /\ Get(w, "defi_interaction_count", RInt(0)) = RInt(0)
    /\ Get(w, "dao_vote_count", RInt(0)) = RInt(0)
    /\ Get(w, "days_since_last_transaction", RInt(365)) = RInt(365)
    /\ Get(w, "transactions", <<>>) = <<>>

\* C10 as stated: classify_wallet on an empty Activity Record gives
\* wallet_type "Unknown", risk_score 25.0 and health_score 50.0.
C10_EmptyRecordIsUnknown ==
    (Classified /\ IsEmptyRecord(wallet_data)) =>
        /\ classification.wallet_type = "Unknown"
        /\ classification.risk_score = RInt(25)
        /\ classification.health_score = RInt(50)

\* C10 amended: classify_wallet on an empty Activity Record gives wallet_type
\* "Dormant/Inactive", risk_score 20 + 20/366 and health_score 20 * 365/366.
C10_EmptyRecordIsDormant ==
    (Classified /\ IsEmptyRecord(wallet_data)) =>
        /\ classification.wallet_type = "Dormant/Inactive"
        /\ classification.risk_score = Rat(20 * 367, 366)
        /\ classification.health_score = Rat(20 * 365, 366)

\* C10 witness: the record without any field has been classified.
C10_Witness ==
    /\ Classified
    /\ wallet_data = EmptyDict
    /\ classification.wallet_type = "Dormant/Inactive"

(***************************************************************************)
(* Properties of the core functions (PureSpec)                             *)
(***************************************************************************)
FeatureNames ==
    {"transaction_count", "token_count", "nft_count", "activity_recency",
     "token_diversity", "nft_focus", "dao_engagement", "defi_engagement",
     "avg_tx_value", "tx_frequency"}

\* the features computed by a division
RatioNames ==
    {"activity_recency", "token_diversity", "nft_focus", "dao_engagement",
     "defi_engagement", "avg_tx_value", "tx_frequency"}

Extracted == pc \in {"call_classify_wallet", "call_prepare_visualization_data", "returned"}
ClassifyReturned == pc \in {"call_prepare_visualization_data", "returned"}
VisualizationReturned == pc = "returned"

\* C11: _extract_features returns, for any input, a Feature Vector with all
\* ten fields, and every ratio in it is a number (no division by zero).
C11_ExtractTotal ==
    Extracted =>
        /\ DOMAIN features = FeatureNames
        /\ \A k \in RatioNames : IsNum(features[k]) /\ features[k].d > 0

\* C11 witness: a value that is not a record has been given to
\* _extract_features, which returned the ten fields.
C11_Witness ==
    /\ Extracted
    /\ wallet_data \in NonRecords
    /\ DOMAIN features = FeatureNames
    /\ features.tx_frequency = RInt(0)

MalformedCount(k) == IsDict(wallet_data) /\ ~IsNum(Get(wallet_data, k, RInt(0)))

\* C12: a malformed transaction_count, token_count or nft_count is replaced
\* by 0 in the Feature Vector, and classify_wallet on that record returns a
\* Classification Result.
C12_MalformedCountsDefaultToZero ==
    ClassifyReturned =>
        \A k \in {"transaction_count", "token_count", "nft_count"} :
            MalformedCount(k) =>
                /\ features[k] = RInt(0)
                /\ "raised" \notin DOMAIN classification

EthEntry == [symbol |-> "ETH", value |-> Rat(1, 10), name |-> "Ethereum", type |-> "ERC20"]
UnknownDefiEntry == [protocol |-> "Unknown", interactions |-> 0]

\* C13: for an input that is None, an empty mapping or not a mapping,
\* prepare_visualization_data returns portfolio [ETH 0.1 Ethereum ERC20] and
\* defi_interactions [Unknown 0], with empty timeline and dao_participation.
C13_InvalidInputGivesDefaultBundle ==
    (VisualizationReturned /\ (~IsDict(wallet_data) \/ DOMAIN wallet_data = {})) =>
        /\ visualization_data.portfolio = <<EthEntry>>
        /\ visualization_data.defi_interactions = <<UnknownDefiEntry>>
        /\ visualization_data.timeline = <<>>
        /\ visualization_data.dao_participation = <<>>

\* C14: for every Activity Record the bundle has a non-empty portfolio and
\* non-empty defi_interactions; without token balances and NFTs the portfolio
\* is exactly [ETH 0.1 Ethereum ERC20], and without DeFi protocols
\* defi_interactions is exactly [Unknown 0].
C14_ChartableDataNeverEmpty ==
    (VisualizationReturned /\ IsDict(wallet_data)) =>
        /\ visualization_data.portfolio # <<>>
        /\ visualization_data.defi_interactions # <<>>
        /\ (/\ Get(wallet_data, "token_balances", <<>>) = <<>>
            /\ Get(wallet_data, "nfts", <<>>) = <<>>) =>
                visualization_data.portfolio = <<EthEntry>>
        /\ Get(wallet_data, "defi_protocols", PyDict(<<>>)) = PyDict(<<>>) =>
                visualization_data.defi_interactions = <<UnknownDefiEntry>>

\* C15: the bundle always has the field nft_collections, and it is the empty
\* sequence for a record without NFTs.
C15_NftCollectionsAlwaysPresent ==
    VisualizationReturned =>
        /\ "nft_collections" \in DOMAIN visualization_data
        /\ (IsDict(wallet_data) /\ Get(wallet_data, "nfts", <<>>) = <<>>) =>
               visualization_data.nft_collections = <<>>

\* the raw value of a token as the record carries it
RawValue(t) ==
    IF "tokenValue" \in DOMAIN t THEN t.tokenValue
    ELSE IF "tokenBalance" \in DOMAIN t THEN t.tokenBalance
    ELSE RInt(0)
\* a token whose decoded value raw / 10^decimals is strictly positive
PositiveToken(t) == IsDict(t) /\ IsNum(RawValue(t)) /\ RawValue(t).n > 0
InputTokens == IF IsDict(wallet_data) THEN Get(wallet_data, "token_balances", <<>>) ELSE <<>>
InputNfts == IF IsDict(wallet_data) THEN Get(wallet_data, "nfts", <<>>) ELSE <<>>
PositiveIdx == {i \in 1..Len(InputTokens) : PositiveToken(InputTokens[i])}
\* the index in token_balances of the k-th token of positive value
KthPositive(k) ==
    CHOOSE i \in PositiveIdx : Cardinality({j \in PositiveIdx : j <= i}) = k
Erc20Entries ==
    SelectSeq(visualization_data.portfolio, LAMBDA e : e.type = "ERC20")
NftEntries ==
    SelectSeq(visualization_data.portfolio, LAMBDA e : e.type = "NFT")
\* the ERC20 entries are the tokens of positive value, one each, in input order
Erc20AreThePositiveTokens ==
    /\ Len(Erc20Entries) = Cardinality(PositiveIdx)
    /\ \A k \in 1..Len(Erc20Entries) :
          LET t == InputTokens[KthPositive(k)]
              e == Erc20Entries[k]
          IN  /\ e.symbol = t.tokenSymbol
              /\ e.name = t.tokenName
              /\ e.value.n = RawValue(t).n /\ e.value.d = RawValue(t).d
              /\ e.value.e = IF "tokenDecimal" \in DOMAIN t
                             THEN t.tokenDecimal.n ELSE 18

\* C16 (as stated): the ERC20 entries of portfolio are exactly the tokens of
\* token_balances whose decoded value is strictly positive, one entry per
\* such token in input order; zero-valued and malformed tokens never appear.
C16_Erc20ExactlyPositiveTokens == VisualizationReturned => Erc20AreThePositiveTokens

\* C16 (amended): the same, except that the single synthetic entry
\* [ETH 0.1 Ethereum ERC20] may stand in portfolio when no token has a
\* positive decoded value and the record has no NFTs.
C16_Erc20PositiveTokensOrDefault ==
    VisualizationReturned =>
        \/ Erc20AreThePositiveTokens
        \/ /\ PositiveIdx = {}
           /\ InputNfts = <<>>
           /\ visualization_data.portfolio = <<EthEntry>>
C16_Witness ==
    /\ VisualizationReturned
    /\ Len(InputTokens) = 4
    /\ Cardinality(PositiveIdx) = 2
    /\ \E i \in 1..4 : IsNum(RawValue(InputTokens[i])) /\ RawValue(InputTokens[i]).n = 0
    /\ \E i \in 1..4 : ~IsNum(RawValue(InputTokens[i]))
    /\ Len(Erc20Entries) = 2
    /\ Erc20Entries[1].symbol = "WETH" /\ Erc20Entries[2].symbol = "DAI"

\* C17: the synthetic entry [NFTs 0.1 NFT] is appended exactly when the
\* record has at least one NFT and fewer than 3 tokens of positive value;
\* there is never more than one, and it comes after the ERC20 entries.
C17_NftEntryIffFewTokens ==
    VisualizationReturned =>
        LET p == visualization_data.portfolio
        IN  /\ Len(NftEntries) = IF Len(InputNfts) >= 1 /\ Cardinality(PositiveIdx) < 3
                                 THEN 1 ELSE 0
            /\ \A i \in 1..Len(p) :
                  p[i].type = "NFT" =>
                      /\ i = Len(p)
                      /\ p[i].symbol = "NFTs"
                      /\ p[i].value = Rat(1, 10)
C17_Witness ==
    /\ VisualizationReturned
    /\ Len(InputNfts) = 3
    /\ Cardinality(PositiveIdx) = 2
    /\ Len(visualization_data.portfolio) = 3
    /\ visualization_data.portfolio[3].type = "NFT"

(***************************************************************************)
(* Properties of the handler, continued                                    *)
(***************************************************************************)
Enhanced == "text" \in DOMAIN bio_data
\* the first entry of the template list of a label; a label outside the
\* table has the one-entry default list
FirstTemplate(wallet_type) ==
    [kind |-> "template",
     wallet_type |-> IF wallet_type \in {"Investor", "NFT Collector", "DAO Member",
                                         "Degen Trader", "Dormant/Inactive"}
                     THEN wallet_type ELSE "Crypto enthusiast",
     index |-> 0]

\* C19: enhance_generated_bio replaces a generated text of fewer than 10
\* words by the first template of the wallet_type and reports
\* is_ai_generated false; a text of 10 or more words is kept as the start of
\* the bio and is_ai_generated is true.
C19_ShortBioReplacedByTemplate ==
    Enhanced =>
        IF Len(persona_bio) < 10
        THEN /\ bio_data.is_ai_generated = FALSE
             /\ bio_data.text[1] = FirstTemplate(classification.wallet_type)
             /\ \A i \in 1..Len(bio_data.text) : bio_data.text[i].kind # "word"
        ELSE /\ bio_data.is_ai_generated = TRUE
             /\ Len(bio_data.text) >= Len(persona_bio)
             /\ SubSeq(bio_data.text, 1, Len(persona_bio)) = persona_bio
C19_Witness ==
    /\ Enhanced
    /\ Len(persona_bio) = 9
    /\ classification.wallet_type = "NFT Collector"
    /\ bio_data.is_ai_generated = FALSE
    /\ bio_data.text[1].kind = "template"

\* the example of the claim: few transactions, NFT-heavy, recently active
FewTxNftHeavyRecent(f) ==
    /\ IsNum(f.transaction_count) /\ RLt(f.transaction_count, RInt(5))
    /\ RLt(Rat(1, 2), f.nft_focus)
    /\ RLe(Rat(1, 100), f.activity_recency)

\* C20: for a Feature Vector with transaction_count below 5, nft_focus above
\* 0.5 and activity_recency at least 0.01 the rule-based label is
\* Dormant/Inactive while another label has a strictly larger share in
\* all_types_confidence, so the top share and the label disagree.
C20_TopShareDiffersFromLabel ==
    (Classified /\ FewTxNftHeavyRecent(classification.features)) =>
        /\ classification.wallet_type = "Dormant/Inactive"
        /\ \E l \in DOMAIN classification.all_types_confidence :
               classification.all_types_confidence[l] >
                   classification.all_types_confidence[classification.wallet_type]
C20_Witness ==
    /\ Classified
    /\ FewTxNftHeavyRecent(classification.features)
    /\ classification.wallet_type = "Dormant/Inactive"
    /\ classification.all_types_confidence["NFT Collector"] >
           classification.all_types_confidence["Dormant/Inactive"]
    /\ \A l \in DOMAIN classification.all_types_confidence :
           classification.all_types_confidence[l] <=
               classification.all_types_confidence["NFT Collector"]

(***************************************************************************)
(* Properties of the Feature Vector (PureSpec)                             *)
(***************************************************************************)
InputTxs == IF IsDict(wallet_data) THEN Get(wallet_data, "transactions", <<>>) ELSE <<>>
\* every listed transaction is a mapping with a numeric timeStamp and value
TxsWellFormed ==
    \A i \in 1..Len(InputTxs) :
        /\ IsDict(InputTxs[i])
        /\ "timeStamp" \in DOMAIN InputTxs[i] /\ IsNum(InputTxs[i].timeStamp)
        /\ "value" \in DOMAIN InputTxs[i] /\ IsNum(InputTxs[i].value)
\* days between the earliest (last listed) and the latest (first listed)
\* transaction
SpanDays ==
    Rat(InputTxs[1].timeStamp.n - InputTxs[Len(InputTxs)].timeStamp.n, 86400)

\* the record lists the 10 most recent of its transaction_count transactions,
\* as get_wallet_features builds it
ListsTenMostRecent ==
    \/ /\ RLe(RInt(10), wallet_data.transaction_count) /\ Len(InputTxs) = 10
    \/ wallet_data.transaction_count = RInt(Len(InputTxs))

\* C21: with at least 2 transactions tx_frequency is transaction_count
\* divided by max(span in days, 1), and it is 0 with fewer than 2, also when
\* transaction_count differs from the number of listed transactions.
C21_FrequencyFromTransactionCount ==
    (/\ Extracted
     /\ IsDict(wallet_data)
     /\ "transaction_count" \in DOMAIN wallet_data
     /\ IsNum(wallet_data.transaction_count)
     /\ TxsWellFormed
     /\ ListsTenMostRecent) =>
        IF Len(InputTxs) >= 2
        THEN features.tx_frequency =
                 RDiv(wallet_data.transaction_count, RMax(SpanDays, RInt(1)))
        ELSE features.tx_frequency = RInt(0)

InputDays ==
    IF IsDict(wallet_data)
    THEN Get(wallet_data, "days_since_last_transaction", RInt(365))
    ELSE Bad("missing")
AllTxsAreMappings == \A i \in 1..Len(InputTxs) : IsDict(InputTxs[i])

\* C22: activity_recency lies in [0,1]; it is 1 / (1 + days) for a
\* non-negative days_since_last_transaction and 0 for a negative or
\* non-numeric one.
C22_RecencyInUnitInterval ==
    (Extracted /\ IsDict(wallet_data) /\ AllTxsAreMappings) =>
        /\ RLe(RInt(0), features.activity_recency)
        /\ RLe(features.activity_recency, RInt(1))
        /\ IF IsNum(InputDays) /\ RLe(RInt(0), InputDays)
           THEN features.activity_recency = RDiv(RInt(1), RAdd(RInt(1), InputDays))
           ELSE features.activity_recency = RInt(0)

CountNames ==
    {"transaction_count", "token_count", "nft_count", "dao_vote_count",
     "defi_interaction_count"}
NumericCounts == \A k \in CountNames : IsNum(Get(wallet_data, k, RInt(0)))
\* some listed transaction is not a mapping or has a non-numeric value or
\* timeStamp
SomeTxMalformed ==
    \E i \in 1..Len(InputTxs) :
        \/ ~IsDict(InputTxs[i])
        \/ ~IsNum(Get(InputTxs[i], "value", RInt(0)))
        \/ ~IsNum(Get(InputTxs[i], "timeStamp", RInt(0)))
RatioOf(a, b) == RDiv(a, IF RLt(b, RInt(1)) THEN RInt(1) ELSE b)

\* C23: when a listed transaction is malformed or is not a mapping, only
\* avg_tx_value and tx_frequency fall back to 0; the three counts and
\* activity_recency, token_diversity, nft_focus, dao_engagement and
\* defi_engagement keep the values computed from the record.
C23_FallbacksAreLocal ==
    (/\ Extracted
     /\ IsDict(wallet_data)
     /\ NumericCounts
     /\ IsNum(InputDays) /\ RLe(RInt(0), InputDays)
     /\ SomeTxMalformed) =>
        LET tx  == Get(wallet_data, "transaction_count", RInt(0))
            tok == Get(wallet_data, "token_count", RInt(0))
            nft == Get(wallet_data, "nft_count", RInt(0))
            dao == Get(wallet_data, "dao_vote_count", RInt(0))
            dfi == Get(wallet_data, "defi_interaction_count", RInt(0))
        IN  /\ features.transaction_count = tx
            /\ features.token_count = tok
            /\ features.nft_count = nft
            /\ features.activity_recency = RDiv(RInt(1), RAdd(RInt(1), InputDays))
            /\ features.token_diversity = RatioOf(tok, tx)
            /\ features.nft_focus = RatioOf(nft, RAdd(tok, nft))
            /\ features.dao_engagement = RatioOf(dao, tx)
            /\ features.defi_engagement = RatioOf(dfi, tx)

(***************************************************************************)
(* Properties of the timeline (PureSpec)                                   *)
(***************************************************************************)
\* the transactions of the record: the entries of "transactions" that are
\* mappings
MappingIdx == {i \in 1..Len(InputTxs) : IsDict(InputTxs[i])}
KthTransaction(k) ==
    CHOOSE i \in MappingIdx : Cardinality({j \in MappingIdx : j <= i}) = k
HasNumber(t, field) == field \in DOMAIN t /\ IsNum(t[field])

\* C24: the timeline has one entry per transaction of the record, in the
\* record's order; a malformed or missing timeStamp gives timestamp 0 and a
\* malformed or missing value gives value 0.0, the transaction is kept, and
\* the entries of the other transactions carry their own timestamp and value.
C24_TimelineKeepsEveryTransaction ==
    VisualizationReturned =>
        LET timeline == visualization_data.timeline
        IN  /\ Len(timeline) = Cardinality(MappingIdx)
            /\ \A k \in 1..Len(timeline) :
                  LET t == InputTxs[KthTransaction(k)]
                  IN  /\ timeline[k].type = "transaction"
                      /\ timeline[k].hash = IF "hash" \in DOMAIN t THEN t.hash ELSE ""
                      /\ timeline[k].timestamp =
                             IF HasNumber(t, "timeStamp")
                             THEN t.timeStamp.n \div t.timeStamp.d ELSE 0
                      /\ timeline[k].value =
                             IF HasNumber(t, "value")
                             THEN Rat(t.value.n, t.value.d * 100) ELSE RInt(0)
C24_Witness ==
    /\ VisualizationReturned
    /\ Len(InputTxs) = 3
    /\ MappingIdx = {1, 2, 3}
    /\ "timeStamp" \notin DOMAIN InputTxs[2] /\ "value" \notin DOMAIN InputTxs[2]
    /\ Len(visualization_data.timeline) = 3
    /\ visualization_data.timeline[2].timestamp = 0
    /\ visualization_data.timeline[2].value = RInt(0)
    /\ visualization_data.timeline[1].timestamp = 172800
    /\ visualization_data.timeline[1].value = RInt(2)
    /\ visualization_data.timeline[3].timestamp = 86400
    /\ visualization_data.timeline[3].value = RInt(1)

(***************************************************************************)
(* Properties of classify_wallet (PureSpec)                                *)
(***************************************************************************)
ClassifiedPure == ClassifyReturned /\ "wallet_type" \in DOMAIN classification
DormantByRecency ==
    ClassifiedPure /\ RLt(classification.features.activity_recency, Rat(1, 100))

\* C25: whenever activity_recency < 0.01 the label is Dormant/Inactive, its
\* share of all_types_confidence is strictly larger than every other
\* label's, whichever of the other three adjustments fire, and the reported
\* confidence is that largest share.
C25_DormantByRecencyHasTopShare ==
    DormantByRecency =>
        /\ classification.wallet_type = "Dormant/Inactive"
        /\ \A l \in DOMAIN classification.all_types_confidence :
               l # "Dormant/Inactive" =>
                   classification.all_types_confidence[l] <
                       classification.all_types_confidence["Dormant/Inactive"]
        /\ classification.confidence =
               classification.all_types_confidence["Dormant/Inactive"]
C25_Witness ==
    /\ DormantByRecency
    /\ RLt(Rat(1, 2), classification.features.nft_focus)
    /\ RLt(Rat(1, 10), classification.features.dao_engagement)
    /\ RLt(RInt(5), classification.features.tx_frequency)
    /\ classification.wallet_type = "Dormant/Inactive"
    /\ classification.all_types_confidence["NFT Collector"] > 0
    /\ classification.all_types_confidence["NFT Collector"] <
           classification.all_types_confidence["Dormant/Inactive"]

=============================================================================
